---- MODULE Spec2Model ----
(***************************************************************************)
(* Product catalog API (src/main.py): list/search products, list           *)
(* categories, create a product, seed sample data, over one collection     *)
(* "product" of a document store.                                          *)
(*                                                                         *)
(* Every handler is an `async def` without an await, so inside one server  *)
(* process a handler runs to completion before the next one starts         *)
(* (SeqSpec).  Several server processes that share the store interleave at *)
(* the store calls (Spec): each action below is one store round trip       *)
(* together with the handler code that leads to it.                        *)
(*                                                                         *)
(* Values: text is a TLA+ string, Codes(s) gives its characters; an        *)
(* Optional value is <<>> (None) or <<v>>; price is in whole currency      *)
(* units and rating in tenths, both integers.                              *)
(***************************************************************************)
EXTENDS Integers, Sequences, FiniteSets, TLC

\* db        the store handle of database.py: "None" or "Database"
\* product   the collection db["product"], in insertion order
\* nextId    the _id the store assigns to the next inserted document
\* req       per server process, the request it handles: its input, the
\*           handler's position and locals, and its response
\* started   writing requests arrived so far
\* seedIds   the _ids of the documents that seed_products inserted
\* emptySeen seed_products requests whose count found the collection empty
VARIABLES db, product, nextId, req, started, seedIds, emptySeen

vars == <<db, product, nextId, req, started, seedIds, emptySeen>>

\* Writing requests (create, seed) the model lets arrive in one run.
MaxWrites == 2

\* Server processes (uvicorn workers) that handle one request at a time each.
Slots == {"w1", "w2"}

None == <<>>
Some(v) == <<v>>

\* ------------------------------------------------------------------ text

Codes(s) ==
  CASE s = "" -> <<>>
  [] s = "Apple iPhone 15" -> <<65, 112, 112, 108, 101, 32, 105, 80, 104, 111, 110, 101, 32, 49, 53>>
  [] s = "Dynamic Island, A16 Bionic, 6.1-inch Super Retina XDR" -> <<68, 121, 110, 97, 109, 105, 99, 32, 73, 115, 108, 97, 110, 100, 44, 32, 65, 49, 54, 32, 66, 105, 111, 110, 105, 99, 44, 32, 54, 46, 49, 45, 105, 110, 99, 104, 32, 83, 117, 112, 101, 114, 32, 82, 101, 116, 105, 110, 97, 32, 88, 68, 82>>
  [] s = "Mobiles" -> <<77, 111, 98, 105, 108, 101, 115>>
  [] s = "Samsung Galaxy S23" -> <<83, 97, 109, 115, 117, 110, 103, 32, 71, 97, 108, 97, 120, 121, 32, 83, 50, 51>>
  [] s = "Snapdragon 8 Gen 2, Pro-grade camera" -> <<83, 110, 97, 112, 100, 114, 97, 103, 111, 110, 32, 56, 32, 71, 101, 110, 32, 50, 44, 32, 80, 114, 111, 45, 103, 114, 97, 100, 101, 32, 99, 97, 109, 101, 114, 97>>
  [] s = "Sony WH-1000XM5" -> <<83, 111, 110, 121, 32, 87, 72, 45, 49, 48, 48, 48, 88, 77, 53>>
  [] s = "Industry leading noise canceling headphones" -> <<73, 110, 100, 117, 115, 116, 114, 121, 32, 108, 101, 97, 100, 105, 110, 103, 32, 110, 111, 105, 115, 101, 32, 99, 97, 110, 99, 101, 108, 105, 110, 103, 32, 104, 101, 97, 100, 112, 104, 111, 110, 101, 115>>
  [] s = "Audio" -> <<65, 117, 100, 105, 111>>
  [] s = "HP Victus Gaming Laptop" -> <<72, 80, 32, 86, 105, 99, 116, 117, 115, 32, 71, 97, 109, 105, 110, 103, 32, 76, 97, 112, 116, 111, 112>>
  [] s = "Ryzen 7, RTX 4060, 16GB RAM, 512GB SSD" -> <<82, 121, 122, 101, 110, 32, 55, 44, 32, 82, 84, 88, 32, 52, 48, 54, 48, 44, 32, 49, 54, 71, 66, 32, 82, 65, 77, 44, 32, 53, 49, 50, 71, 66, 32, 83, 83, 68>>
  [] s = "Laptops" -> <<76, 97, 112, 116, 111, 112, 115>>
  [] s = "Nike Air Max" -> <<78, 105, 107, 101, 32, 65, 105, 114, 32, 77, 97, 120>>
  [] s = "Breathable mesh, all-day comfort" -> <<66, 114, 101, 97, 116, 104, 97, 98, 108, 101, 32, 109, 101, 115, 104, 44, 32, 97, 108, 108, 45, 100, 97, 121, 32, 99, 111, 109, 102, 111, 114, 116>>
  [] s = "Fashion" -> <<70, 97, 115, 104, 105, 111, 110>>
  [] s = "Canon EOS R10" -> <<67, 97, 110, 111, 110, 32, 69, 79, 83, 32, 82, 49, 48>>
  [] s = "Mirrorless camera with 24.2MP sensor" -> <<77, 105, 114, 114, 111, 114, 108, 101, 115, 115, 32, 99, 97, 109, 101, 114, 97, 32, 119, 105, 116, 104, 32, 50, 52, 46, 50, 77, 80, 32, 115, 101, 110, 115, 111, 114>>
  [] s = "Cameras" -> <<67, 97, 109, 101, 114, 97, 115>>
  [] s = "nano" -> <<110, 97, 110, 111>>
  [] s = "Tiny player" -> <<84, 105, 110, 121, 32, 112, 108, 97, 121, 101, 114>>
  [] s = "audio" -> <<97, 117, 100, 105, 111>>
  [] s = "Blank" -> <<66, 108, 97, 110, 107>>
  [] s = "NA" -> <<78, 65>>
  [] s = "." -> <<46>>

\* Characters of a string, as code points.
Lower(c) == IF c >= 65 /\ c <= 90 THEN c + 32 ELSE c



\* MongoDB {"$regex": pat, "$options": "i"} on a text field, for patterns made
\* of literal characters and "." (any character): an unanchored search.
RegexSearch(pat, text) ==
  \E off \in 0..(Len(text) - Len(pat)) :
    \A i \in 1..Len(pat) :
      pat[i] = Codes(".")[1] \/ Lower(pat[i]) = Lower(text[off + i])

\* Python's order on str: by code point, a proper prefix first.
LexLess(a, b) ==
  \E k \in 0..Len(a) :
    /\ k <= Len(b)
    /\ \A i \in 1..k : a[i] = b[i]
    /\ \/ k = Len(a) /\ k < Len(b)
       \/ k < Len(a) /\ k < Len(b) /\ a[k + 1] < b[k + 1]

StrLess(s, t) == LexLess(Codes(s), Codes(t))

RECURSIVE sorted(_)
\* Python's sorted() on a set of distinct strings.
sorted(S) ==
  IF S = {} THEN <<>>
  ELSE LET m == CHOOSE x \in S : \A y \in S \ {x} : StrLess(x, y)
       IN  <<m>> \o sorted(S \ {m})

\* ------------------------------------------------------------- object ids

HexDigit(d) ==
  CASE d = 0 -> "0" [] d = 1 -> "1" [] d = 2 -> "2" [] d = 3 -> "3"
    [] d = 4 -> "4" [] d = 5 -> "5" [] d = 6 -> "6" [] d = 7 -> "7"
    [] d = 8 -> "8" [] d = 9 -> "9" [] d = 10 -> "a" [] d = 11 -> "b"
    [] d = 12 -> "c" [] d = 13 -> "d" [] d = 14 -> "e" [] d = 15 -> "f"

RECURSIVE Hex(_, _)
Hex(n, width) ==
  IF width = 0 THEN "" ELSE Hex(n \div 16, width - 1) \o HexDigit(n % 16)

\* str(ObjectId): 24 hexadecimal digits.

ObjectIdStr(n) == Hex(n, 24)

\* ------------------------------------------------------------ sample data

sample ==
  << [title |-> "Apple iPhone 15",
      description |-> Some("Dynamic Island, A16 Bionic, 6.1-inch Super Retina XDR"),
      price |-> 799, category |-> "Mobiles", in_stock |-> TRUE,
      image |-> Some("https://images.unsplash.com/photo-1695048133142-93b2b88a93df?w=800"),
      rating |-> Some(46)],
     [title |-> "Samsung Galaxy S23",
      description |-> Some("Snapdragon 8 Gen 2, Pro-grade camera"),
      price |-> 699, category |-> "Mobiles", in_stock |-> TRUE,
      image |-> Some("https://images.unsplash.com/photo-1675866231057-1c5efb395c3b?w=800"),
      rating |-> Some(45)],
     [title |-> "Sony WH-1000XM5",
      description |-> Some("Industry leading noise canceling headphones"),
      price |-> 349, category |-> "Audio", in_stock |-> TRUE,
      image |-> Some("https://images.unsplash.com/photo-1546435770-a3e426bf472b?w=800"),
      rating |-> Some(47)],
     [title |-> "HP Victus Gaming Laptop",
      description |-> Some("Ryzen 7, RTX 4060, 16GB RAM, 512GB SSD"),
      price |-> 1199, category |-> "Laptops", in_stock |-> TRUE,
      image |-> Some("https://images.unsplash.com/photo-1517336714731-489689fd1ca8?w=800"),
      rating |-> Some(43)],
     [title |-> "Nike Air Max",
      description |-> Some("Breathable mesh, all-day comfort"),
      price |-> 129, category |-> "Fashion", in_stock |-> TRUE,
      image |-> Some("https://images.unsplash.com/photo-1542291026-7eec264c27ff?w=800"),
      rating |-> Some(44)],
     [title |-> "Canon EOS R10",
      description |-> Some("Mirrorless camera with 24.2MP sensor"),
      price |-> 999, category |-> "Cameras", in_stock |-> TRUE,
      image |-> Some("https://images.unsplash.com/photo-1519183071298-a2962be96f83?w=800"),
      rating |-> Some(45)] >>

\* ObjectId(s): the id a 24-digit string denotes, None when s denotes none
\* (bson raises InvalidId).
ObjectIds == 1..(Len(sample) * MaxWrites)
ObjectId(s) ==
  IF \E n \in ObjectIds : ObjectIdStr(n) = s
  THEN Some(CHOOSE n \in ObjectIds : ObjectIdStr(n) = s)
  ELSE None

\* ------------------------------------------------------- request inputs

\* JSON bodies of POST /api/products: a field is None when the body omits it;
\* price is a number, a text that is no number, or missing.
Number(n) == [kind |-> "number", num |-> n]
NotANumber == [kind |-> "text", num |-> 0]
Missing == [kind |-> "missing", num |-> 0]

Body(title, description, price, category, in_stock, image, rating) ==
  [title |-> title, description |-> description, price |-> price,
   category |-> category, in_stock |-> in_stock, image |-> image,
   rating |-> rating]

Bodies ==
  { Body(Some("Apple iPhone 15"), None, Number(799), Some("Mobiles"), None, None, None),
    Body(Some("nano"), Some("Tiny player"), Number(0), Some("audio"),
         Some(FALSE), Some("http://img/nano.png"), Some(39)),
    Body(Some("Blank"), None, Number(5), Some(""), None, None, None),
    Body(None, None, Number(799), Some("Mobiles"), None, None, None),
    Body(Some("nano"), None, Missing, Some("audio"), None, None, None),
    Body(Some("nano"), None, NotANumber, Some("audio"), None, None, None),
    Body(Some("nano"), None, Number(5), None, None, None, None),
    Body(Some("nano"), None, Number(-1), Some("audio"), None, None, None) }

NoBody == Body(None, None, Missing, None, None, None, None)

\* Query parameters of GET /api/products; None when the parameter is omitted.
Searches == {None, Some(""), Some("NA"), Some(".")}
Categories == {None, Some(""), Some("Audio"), Some("Mobiles")}
Limits == {None, Some(0), Some(1), Some(2), Some(200), Some(201)}

NoQuery == [search |-> None, category |-> None, limit |-> None]

\* ------------------------------------------------------------- responses

NoResp ==
  [status |-> 0, kind |-> "", detail |-> "", message |-> "", items |-> <<>>,
   item |-> None, inserted |-> 0, count |-> 0]

\* raise HTTPException(status_code=500, detail="Database not configured")
NotConfigured ==
  [NoResp EXCEPT !.status = 500, !.kind = "error",
                 !.detail = "Database not configured"]

\* The framework rejects the request before the handler runs (HTTP 422).
ValidationError ==
  [NoResp EXCEPT !.status = 422, !.kind = "error", !.detail = "validation error"]

\* An exception leaves the handler: the framework answers HTTP 500.
ServerError ==
  [NoResp EXCEPT !.status = 500, !.kind = "error",
                 !.detail = "Internal Server Error"]

IdleReq ==
  [op |-> "none", pc |-> "idle", body |-> NoBody, query |-> NoQuery,
   limit_used |-> None, count |-> 0, i |-> 0, new_id |-> "", nins |-> 0,
   resp |-> NoResp]

\* ------------------------------------------------------------ pure code

OrElse(opt, default) == IF opt = None THEN default ELSE opt[1]

\* Python truthiness of an Optional[str]: None and "" are falsy.
Truthy(opt) == opt # None /\ opt[1] # ""

\* Mutant: the optional description is required too.
CreateProductValidStrict(body) ==
  /\ body.title # None
  /\ body.description # None
  /\ body.price.kind = "number"
  /\ body.category # None

\* Mutant: the title is not required.
CreateProductValidNoTitle(body) ==
  /\ body.price.kind = "number"
  /\ body.category # None

\* class CreateProduct(BaseModel): title, price, category are required and
\* price must be a number.
CreateProductValid(body) ==
  /\ body.title # None
  /\ body.price.kind = "number"
  /\ body.category # None

\* The parsed payload, with the defaults of the optional fields.
CreateProduct(body) ==
  [title |-> OrElse(body.title, ""), description |-> body.description,
   price |-> body.price.num, category |-> OrElse(body.category, ""),
   in_stock |-> OrElse(body.in_stock, TRUE), image |-> body.image,
   rating |-> body.rating]

\* schemas.Product: the price is a non-negative number.
ProductSchemaValid(payload) == payload.price >= 0

\* {**p.model_dump(), "image": payload.image, "rating": payload.rating}
NewDocument(payload) ==
  [title |-> payload.title, description |-> payload.description,
   price |-> payload.price, category |-> payload.category,
   in_stock |-> payload.in_stock, image |-> payload.image,
   rating |-> payload.rating]

\* _serialize: None stays None; otherwise "_id" is replaced by "id", its string.
Serialize(doc) ==
  IF doc = None THEN None
  ELSE LET d == doc[1]
       IN  Some([k \in (DOMAIN d \ {"_id"}) \cup {"id"} |->
                   IF k = "id" THEN ObjectIdStr(d._id) ELSE d[k]])

\* Mutant: the lower bound ge=1 is missing.
LimitValidUpperOnly(limit) == limit = None \/ limit[1] <= 200

\* limit: int = Query(48, ge=1, le=200)
DefaultLimit == 48
MinLimit == 1
MaxLimit == 200
LimitValid(limit) ==
  limit = None \/ (limit[1] >= MinLimit /\ limit[1] <= MaxLimit)
EffectiveLimit(limit) == OrElse(limit, DefaultLimit)

\* filt of list_products: None for a key the filter does not carry.
Filter(search, category) ==
  [regex |-> IF Truthy(search) THEN search ELSE None,
   category |-> IF Truthy(category) THEN category ELSE None]

\* Does the store's find() select doc under filt.
Matches(filt, doc) ==
  /\ \/ filt.regex = None
     \/ RegexSearch(Codes(filt.regex[1]), Codes(doc.title))
     \/ /\ doc.description # None
        /\ RegexSearch(Codes(filt.regex[1]), Codes(doc.description[1]))
  /\ \/ filt.category = None
     \/ doc.category = filt.category[1]

\* database.get_documents: the first `limit` documents find(filt) selects.
get_documents(coll, filt, limit) ==
  LET found == SelectSeq(coll, LAMBDA d : Matches(filt, d))
  IN  SubSeq(found, 1, IF Len(found) < limit THEN Len(found) ELSE limit)

\* Mutant: the `if c` of the comprehension is missing.
CategoryItemsUnfiltered(coll) ==
  sorted({coll[n].category : n \in DOMAIN coll})

\* sorted([c for c in cats if c]) over db["product"].distinct("category")
CategoryItems(coll) ==
  LET cats == {coll[n].category : n \in DOMAIN coll}
  IN  sorted({c \in cats : c # ""})

\* Mutant: seeding is skipped only once a full sample is there.
SeedAlreadyExistsFull(count) == count >= Len(sample)

\* if count > 0: products already exist
SeedAlreadyExists(count) == count > 0

\* Mutant: the loop stops one sample early.
SeedMoreOffByOne(i) == i < Len(sample)

\* The loop `for s in sample` has s left to insert at position i.
SeedMore(i) == i <= Len(sample)

\* find_one({"_id": oid})
FindById(coll, oid) ==
  IF \E n \in DOMAIN coll : coll[n]._id = oid
  THEN Some(coll[CHOOSE n \in DOMAIN coll : coll[n]._id = oid])
  ELSE None

\* find_one(sort=[("_id", -1)])
FindLatest(coll) ==
  IF coll = <<>> THEN None
  ELSE Some(coll[CHOOSE n \in DOMAIN coll :
                   \A m \in DOMAIN coll : coll[m]._id <= coll[n]._id])

\* Mutant: the handle is never checked.
DbNeverChecked == FALSE

\* db is None
DbNotConfigured == db = "None"

\* ------------------------------------------------------------- the store

\* database.create_document: insert_one under a fresh _id; returns str(_id).
WithId(doc, id) ==
  [k \in DOMAIN doc \cup {"_id"} |-> IF k = "_id" THEN id ELSE doc[k]]

create_document(doc) ==
  /\ product' = Append(product, WithId(doc, nextId))
  /\ nextId' = nextId + 1

\* ---------------------------------------------------------------- state

Init ==
  /\ db \in {"None", "Database"}
  /\ product = <<>>
  /\ nextId = 1
  /\ req = [r \in Slots |-> IdleReq]
  /\ started = 0
  /\ seedIds = {}
  /\ emptySeen = 0

\* A writing request arrives at an idle server process.
Arrives(r) ==
  /\ req[r].pc = "idle"
  /\ started < MaxWrites
  /\ started' = started + 1

Finish(slot, resp) == [slot EXCEPT !.pc = "done", !.resp = resp]

\* ------------------------------------------------------ GET /api/products

list_products(r) ==
  /\ req[r].pc = "idle"
  /\ \E search \in Searches, category \in Categories, limit \in Limits :
       LET q == [search |-> search, category |-> category, limit |-> limit]
           slot == [IdleReq EXCEPT !.op = "list_products", !.query = q]
           filt == Filter(search, category)
           docs == get_documents(product, filt, EffectiveLimit(limit))
       IN  req' = [req EXCEPT ![r] =
             IF ~LimitValid(limit) THEN Finish(slot, ValidationError)
             ELSE IF DbNotConfigured THEN Finish(slot, NotConfigured)
             ELSE Finish([slot EXCEPT !.limit_used = Some(EffectiveLimit(limit))],
                         [NoResp EXCEPT !.status = 200, !.kind = "items",
                            !.items = [n \in DOMAIN docs |-> Serialize(Some(docs[n]))[1]]])]
  /\ UNCHANGED <<db, product, nextId, started, seedIds, emptySeen>>

\* ---------------------------------------------------- GET /api/categories

get_categories(r) ==
  /\ req[r].pc = "idle"
  /\ LET slot == [IdleReq EXCEPT !.op = "get_categories"]
     IN  req' = [req EXCEPT ![r] =
           IF DbNotConfigured THEN Finish(slot, NotConfigured)
           ELSE Finish(slot, [NoResp EXCEPT !.status = 200, !.kind = "items",
                                            !.items = CategoryItems(product)])]
  /\ UNCHANGED <<db, product, nextId, started, seedIds, emptySeen>>

\* ----------------------------------------------------- POST /api/products

\* Body validation, the db check, the schema check and the insert of line 126.
create_product_insert(r) ==
  /\ Arrives(r)
  /\ \E body \in Bodies :
       LET slot == [IdleReq EXCEPT !.op = "create_product", !.body = body]
           payload == CreateProduct(body)
       IN  IF ~CreateProductValid(body)
           THEN /\ req' = [req EXCEPT ![r] = Finish(slot, ValidationError)]
                /\ UNCHANGED <<product, nextId>>
           ELSE IF DbNotConfigured
           THEN /\ req' = [req EXCEPT ![r] = Finish(slot, NotConfigured)]
                /\ UNCHANGED <<product, nextId>>
           ELSE IF ~ProductSchemaValid(payload)
           THEN /\ req' = [req EXCEPT ![r] = Finish(slot, ServerError)]
                /\ UNCHANGED <<product, nextId>>
           ELSE /\ create_document(NewDocument(payload))
                /\ req' = [req EXCEPT ![r] =
                     [slot EXCEPT !.pc = "find_default", !.nins = 1,
                                  !.new_id = ObjectIdStr(nextId)]]
  /\ UNCHANGED <<db, seedIds, emptySeen>>

\* Line 127: a lookup keyed by the client's default database.  Its result is
\* never used; the driver may refuse it, and the exception leaves the handler.
create_product_find_default(r) ==
  /\ req[r].pc = "find_default"
  /\ \E outcome \in {"returns", "raises"} :
       req' = [req EXCEPT ![r] =
         IF outcome = "raises" THEN Finish(@, ServerError)
         ELSE [@ EXCEPT !.pc = "find_by_id"]]
  /\ UNCHANGED <<db, product, nextId, started, seedIds, emptySeen>>

\* Lines 129-131 and 134: the import, ObjectId(new_id) and the lookup by id.
\* The store decides what find_one gives: the document, None when the lookup
\* does not see it (a read served by a lagging replica, a document removed
\* by another client of the database), or an error.  An exception goes to
\* the except branch; a lookup that returns, with the document or with None,
\* goes to the return.
create_product_find_by_id(r) ==
  /\ req[r].pc = "find_by_id"
  /\ \E outcome \in {"found", "none", "raises"} :
       LET oid == ObjectId(req[r].new_id)
           created == IF outcome = "found" THEN FindById(product, oid[1]) ELSE None
       IN  req' = [req EXCEPT ![r] =
             IF outcome = "raises" \/ oid = None
             THEN [@ EXCEPT !.pc = "find_latest"]
             ELSE Finish(@, [NoResp EXCEPT !.status = 200, !.kind = "item",
                                           !.item = Serialize(created)])]
  /\ UNCHANGED <<db, product, nextId, started, seedIds, emptySeen>>

\* Lines 132-134: the fallback lookup of the document with the greatest _id.
create_product_find_latest(r) ==
  /\ req[r].pc = "find_latest"
  /\ \E outcome \in {"found", "none", "raises"} :
       LET created == IF outcome = "found" THEN FindLatest(product) ELSE None
       IN  req' = [req EXCEPT ![r] =
             IF outcome = "raises" THEN Finish(@, ServerError)
             ELSE Finish(@, [NoResp EXCEPT !.status = 200, !.kind = "item",
                                           !.item = Serialize(created)])]
  /\ UNCHANGED <<db, product, nextId, started, seedIds, emptySeen>>

\* --------------------------------------------------------- POST /api/seed

\* Lines 138-142: the db check and the count that guards the seeding.
seed_products_count(r) ==
  /\ Arrives(r)
  /\ LET slot == [IdleReq EXCEPT !.op = "seed_products"]
         count == Len(product)
     IN  IF DbNotConfigured
         THEN /\ req' = [req EXCEPT ![r] = Finish(slot, NotConfigured)]
              /\ UNCHANGED emptySeen
         ELSE IF SeedAlreadyExists(count)
         THEN /\ req' = [req EXCEPT ![r] =
                   Finish([slot EXCEPT !.count = count],
                          [NoResp EXCEPT !.status = 200, !.kind = "exists",
                             !.message = "Products already exist",
                             !.count = count])]
              /\ UNCHANGED emptySeen
         ELSE /\ req' = [req EXCEPT ![r] =
                   [slot EXCEPT !.pc = "insert", !.count = count, !.i = 1]]
              /\ emptySeen' = emptySeen + 1
  /\ UNCHANGED <<db, product, nextId, seedIds>>

\* Lines 201-202: one create_document of the loop over sample.
seed_products_insert(r) ==
  /\ req[r].pc = "insert"
  /\ SeedMore(req[r].i)
  /\ create_document(sample[req[r].i])
  /\ seedIds' = seedIds \cup {nextId}
  /\ req' = [req EXCEPT ![r].i = @ + 1, ![r].nins = @ + 1]
  /\ UNCHANGED <<db, started, emptySeen>>

\* Lines 204-205: the count after the loop and the response.
seed_products_recount(r) ==
  /\ req[r].pc = "insert"
  /\ ~SeedMore(req[r].i)
  /\ req' = [req EXCEPT ![r] =
       Finish(@, [NoResp EXCEPT !.status = 200, !.kind = "inserted",
                                !.inserted = Len(sample),
                                !.count = Len(product)])]
  /\ UNCHANGED <<db, product, nextId, started, seedIds, emptySeen>>

\* ------------------------------------------------------------- scheduling

\* The response is sent and the server process is free again.
Respond(r) ==
  /\ req[r].pc = "done"
  /\ req' = [req EXCEPT ![r] = IdleReq]
  /\ UNCHANGED <<db, product, nextId, started, seedIds, emptySeen>>

\* The steps of the handlers that write, and the sending of a response.
WriteStep(r) ==
  \/ create_product_insert(r)
  \/ create_product_find_default(r)
  \/ create_product_find_by_id(r)
  \/ create_product_find_latest(r)
  \/ seed_products_count(r)
  \/ seed_products_insert(r)
  \/ seed_products_recount(r)
  \/ Respond(r)

\* Server processes sharing the store: the store calls of their writing
\* handlers interleave.
Next == \E r \in Slots : WriteStep(r)

Spec == Init /\ [][Next]_vars

\* One server process: a handler runs to its response before the next starts.
Alone(r) == \A q \in Slots \ {r} : req[q].pc = "idle"

SeqNext ==
  \E r \in Slots :
    \/ Alone(r) /\ list_products(r)
    \/ Alone(r) /\ get_categories(r)
    \/ Alone(r) /\ create_product_insert(r)
    \/ Alone(r) /\ create_product_find_default(r)
    \/ Alone(r) /\ create_product_find_by_id(r)
    \/ Alone(r) /\ create_product_find_latest(r)
    \/ Alone(r) /\ seed_products_count(r)
    \/ Alone(r) /\ seed_products_insert(r)
    \/ Alone(r) /\ seed_products_recount(r)
    \/ Alone(r) /\ Respond(r)

SeqSpec == Init /\ [][SeqNext]_vars

\* ---------------------------------------------------------------- claims

Done(r, op) == req[r].op = op /\ req[r].pc = "done"

\* A stored document without its _id.
Fields(doc) == [k \in DOMAIN doc \ {"_id"} |-> doc[k]]

\* The documents of the collection that seeding inserted.
Seeded == {n \in DOMAIN product : product[n]._id \in seedIds}

Copies(k) == {n \in Seeded : Fields(product[n]) = sample[k]}

\* C1: from an empty collection, with the store available and handlers that
\* run one after the other, a seed request that counts 0 inserts exactly the
\* 6 samples and reports inserted = 6 and count = 6; a seed request that
\* counts more than 0 inserts nothing, leaves the collection as it counted it
\* and reports that count, which is 6 right after the first seeding.
C1_SeedTwice ==
  \A r \in Slots :
    Done(r, "seed_products") /\ db = "Database" =>
      IF req[r].count = 0
      THEN /\ req[r].nins = 6
           /\ req[r].resp.status = 200
           /\ req[r].resp.inserted = 6
           /\ req[r].resp.count = 6
           /\ Len(product) = 6
           /\ \A k \in 1..6 : Fields(product[k]) = sample[k]
      ELSE /\ req[r].nins = 0
           /\ req[r].resp.status = 200
           /\ req[r].resp.kind = "exists"
           /\ req[r].resp.count = Len(product)
           /\ req[r].resp.count = req[r].count
           /\ (Cardinality(seedIds) = Len(product) => req[r].resp.count = 6)

\* The second of two seed requests in sequence has answered.
C1_Witness ==
  \E r \in Slots :
    /\ Done(r, "seed_products")
    /\ started = 2
    /\ req[r].resp.kind = "exists"
    /\ req[r].resp.count = 6
    /\ Cardinality(seedIds) = 6
    /\ Len(product) = 6

\* C2, as claimed: under every interleaving the collection holds at most one
\* copy of each sample product inserted by seeding, at most 6 seed-inserted
\* records, and a seed request that counts a non-empty collection inserts
\* nothing.
C2_NeverDuplicates ==
  /\ \A k \in DOMAIN sample : Cardinality(Copies(k)) <= 1
  /\ Cardinality(seedIds) <= 6
  /\ \A r \in Slots :
       req[r].op = "seed_products" /\ req[r].count > 0 => req[r].nins = 0

\* C2, amended: a seed request that counts a non-empty collection inserts
\* nothing, and the collection holds at most one copy of each sample product
\* for each seed request whose count found the collection empty.
C2_DuplicatesOnlyByRacingChecks ==
  /\ \A k \in DOMAIN sample : Cardinality(Copies(k)) <= emptySeen
  /\ Cardinality(seedIds) <= 6 * emptySeen
  /\ \A r \in Slots :
       req[r].op = "seed_products" /\ req[r].count > 0 =>
         /\ req[r].nins = 0
         /\ req[r].pc = "done"
         /\ req[r].resp.kind = "exists"
  /\ \A r \in Slots :
       req[r].op = "seed_products" /\ req[r].pc = "done" /\ req[r].count = 0
         /\ db = "Database" => req[r].nins = 6

\* Two seed requests both counted 0 and both inserted all samples, and a
\* later check-free state shows every sample twice.
C2_Witness ==
  /\ emptySeen = 2
  /\ Cardinality(seedIds) = 12
  /\ \A k \in DOMAIN sample : Cardinality(Copies(k)) = 2

\* C3: a successful create_product response that carries an item carries the
\* record this request inserted: its id is the string of the id assigned to
\* this request's insert and its fields are the request's input.
C3_CreateReturnsOwnRecord ==
  \A r \in Slots :
    Done(r, "create_product") /\ req[r].resp.status = 200
      /\ req[r].resp.item # None =>
        LET item == req[r].resp.item[1]
            payload == CreateProduct(req[r].body)
        IN  /\ item.id = req[r].new_id
            /\ item.title = payload.title
            /\ item.description = payload.description
            /\ item.price = payload.price
            /\ item.category = payload.category
            /\ item.in_stock = payload.in_stock
            /\ item.image = payload.image
            /\ item.rating = payload.rating

\* A body the claims call valid: title, price and category present, price a
\* number that is not negative.
ValidBody(body) ==
  /\ body.title # None /\ body.category # None
  /\ body.price.kind = "number" /\ body.price.num >= 0

\* A body the claims call invalid: title, price or category missing, or a
\* price that is no number.
InvalidBody(body) ==
  \/ body.title = None \/ body.category = None
  \/ body.price.kind # "number"

Ids(coll) == {coll[n]._id : n \in DOMAIN coll}

\* C4: a create_product request with a valid payload and an available store
\* appends exactly one record, under an id no record had before, and the
\* request inserts nothing else; all records have pairwise distinct ids.
C4_CreateInsertsOneFreshRecord ==
  /\ [](Cardinality(Ids(product)) = Len(product))
  /\ [](\A r \in Slots : req[r].op = "create_product" => req[r].nins <= 1)
  /\ [][\A r \in Slots :
          /\ req[r].pc = "idle"
          /\ req'[r].op = "create_product"
          /\ ValidBody(req'[r].body)
          /\ db = "Database"
          => /\ Len(product') = Len(product) + 1
             /\ SubSeq(product', 1, Len(product)) = product
             /\ product'[Len(product')]._id \notin Ids(product) \cup seedIds
             /\ ObjectIdStr(product'[Len(product')]._id) = req'[r].new_id
             /\ Fields(product'[Len(product')]) = CreateProduct(req'[r].body)
       ]_vars

\* A create request has inserted into a collection that seeding had filled.
C4_Witness ==
  \E r \in Slots :
    /\ req[r].op = "create_product"
    /\ req[r].nins = 1
    /\ Len(product) = 7
    /\ Cardinality(seedIds) = 6

\* C5: a create_product request with an invalid payload ends with a
\* validation error in the step it arrives in, and the collection is the
\* same after it as before.
C5_InvalidCreateWritesNothing ==
  [][\A r \in Slots :
       /\ req[r].pc = "idle"
       /\ req'[r].op = "create_product"
       /\ InvalidBody(req'[r].body)
       => /\ req'[r].pc = "done"
          /\ req'[r].resp.status = 422
          /\ req'[r].nins = 0
          /\ product' = product
          /\ nextId' = nextId
    ]_vars

\* An invalid create request was refused while the collection held records.
C5_Witness ==
  \E r \in Slots :
    /\ Done(r, "create_product")
    /\ InvalidBody(req[r].body)
    /\ req[r].resp.status = 422
    /\ Len(product) > 0

Clamp(n) == IF n < MinLimit THEN MinLimit ELSE IF n > MaxLimit THEN MaxLimit ELSE n

\* C6, as claimed: with the store available, every list_products request
\* returns a normal item list, queried with its limit clamped to [1,200]
\* (48 when the limit is omitted).
C6_LimitClamped ==
  \A r \in Slots :
    Done(r, "list_products") /\ db = "Database" =>
      /\ req[r].resp.status = 200
      /\ req[r].resp.kind = "items"
      /\ req[r].limit_used = Some(Clamp(OrElse(req[r].query.limit, 48)))

\* C6, amended: a list_products request whose limit is outside [1,200] is
\* refused with a validation error and queries nothing; with the store
\* available, a limit inside [1,200] is the limit of the query, and an
\* omitted limit queries with 48.
C6_LimitValidated ==
  \A r \in Slots :
    Done(r, "list_products") =>
      LET limit == req[r].query.limit
      IN  IF limit # None /\ (limit[1] < 1 \/ limit[1] > 200)
          THEN /\ req[r].resp.status = 422
               /\ req[r].limit_used = None
               /\ req[r].resp.items = <<>>
          ELSE db = "Database" =>
                 /\ req[r].resp.status = 200
                 /\ req[r].resp.kind = "items"
                 /\ req[r].limit_used = Some(IF limit = None THEN 48 ELSE limit[1])

\* A request with limit 201 was refused although the collection has records
\* to list.
C6_Witness ==
  \E r \in Slots :
    /\ Done(r, "list_products")
    /\ req[r].query.limit = Some(201)
    /\ req[r].resp.status = 422
    /\ db = "Database"
    /\ Len(product) > 0

\* Does sub occur in text, case-insensitively, as a substring.
Substring(sub, text) ==
  \E off \in 0..(Len(text) - Len(sub)) :
    \A i \in 1..Len(sub) : Lower(sub[i]) = Lower(text[off + i])

\* search and category as the claim reads them: the parameter is absent (or
\* empty), or it occurs in title or description as a case-insensitive
\* substring, and the category is equal.
Satisfies(query, doc) ==
  /\ \/ ~Truthy(query.search)
     \/ Substring(Codes(query.search[1]), Codes(doc.title))
     \/ /\ doc.description # None
        /\ Substring(Codes(query.search[1]), Codes(doc.description[1]))
  /\ \/ ~Truthy(query.category)
     \/ doc.category = query.category[1]

\* C7: the items of a list_products response are records of the collection
\* that satisfy the search as a substring and the category exactly, there are
\* at most limit of them, and the request wrote nothing.
C7_ListFilters ==
  \A r \in Slots :
    Done(r, "list_products") /\ req[r].resp.status = 200 =>
      /\ \A n \in DOMAIN req[r].resp.items :
           \E m \in DOMAIN product :
             /\ Serialize(Some(product[m]))[1] = req[r].resp.items[n]
             /\ Satisfies(req[r].query, product[m])
      /\ Len(req[r].resp.items) <= OrElse(req[r].query.limit, 48)
      /\ req[r].nins = 0

IsSortedStrict(items) ==
  \A a, b \in DOMAIN items : a < b => StrLess(items[a], items[b])

\* C8: list_categories returns exactly the non-empty category values of the
\* collection, each once, in ascending lexicographic order.
C8_Categories ==
  \A r \in Slots :
    Done(r, "get_categories") /\ req[r].resp.status = 200 =>
      LET items == req[r].resp.items
      IN  /\ IsSortedStrict(items)
          /\ \A n \in DOMAIN items : items[n] # ""
          /\ {items[n] : n \in DOMAIN items} =
               {product[m].category : m \in DOMAIN product} \ {""}

\* The categories of a collection with a repeated category and an empty one
\* were listed.
C8_Witness ==
  \E r \in Slots :
    /\ Done(r, "get_categories")
    /\ req[r].resp.status = 200
    /\ Len(req[r].resp.items) >= 5
    /\ \E m \in DOMAIN product : product[m].category = ""
    /\ \E a, b \in DOMAIN product : a # b /\ product[a].category = product[b].category

\* Does the framework hand the request to its handler.
PassesValidation(slot) ==
  CASE slot.op = "list_products" ->
         slot.query.limit = None
           \/ (slot.query.limit[1] >= 1 /\ slot.query.limit[1] <= 200)
    [] slot.op = "create_product" -> ~InvalidBody(slot.body)
    [] OTHER -> TRUE

C10_NoNullItem ==
  \A r \in Slots :
    Done(r, "create_product") /\ req[r].resp.status = 200 =>
      req[r].resp.item # None
====
